---- MODULE Spec2Model ----
(***************************************************************************)
(* Model of the service orchestration core of academia-slides:             *)
(*   - ServiceManager (src/lib/service-orchestrator.ts, lines 31-80):      *)
(*     the service registry, the health map and getServiceForTask;         *)
(*   - planVisuals (lines 212-255): the work planner;                      *)
(*   - orchestratePresentation (lines 291-371): the pipeline and its       *)
(*     Promise.all fan-out.                                                *)
(* Slide indexes are 0-based as in the source; position i of a TLA+        *)
(* sequence is slide index i - 1.                                          *)
(***************************************************************************)
EXTENDS Integers, Sequences, FiniteSets, TLC

VARIABLES
    \* ---- ServiceManager ----
    services,        \* Map<string, AIService>: id -> [type, priority, config, seq],
                     \* seq the key's place in the Map's insertion order
    health,          \* Map<string, ServiceHealth>: id -> status, NoRecord when absent
    lastChecked,     \* id -> lastChecked of the stored ServiceHealth, 0 when absent
    lastResolve,     \* the most recent getServiceForTask call: [task, result]
    adminOps,        \* number of configureService / updateHealth calls made
    routing,         \* the TASK_ROUTING table getServiceForTask searches
    pending,         \* registry entries the constructor has still to register
    thrown,          \* error thrown by the latest ServiceManager call, "none" if it returned
    \* ---- orchestratePresentation ----
    pc,              \* position of the async function
    generateVisuals, \* config.generateVisuals
    visualService,   \* config.visualService?.provider, "none" when undefined
    metadata,        \* result of analyzePaperWithService
    slides,          \* result of generateSlidesWithService (result.slides)
    visualPlans,     \* result of planVisuals
    planCalls,       \* number of calls of planVisuals
    unit,            \* state of each visualPromises[i] callback
    visuals,         \* result.visuals : slideIndex -> imageUrl
    charts,          \* result.charts  : slideIndex -> chartUrl
    diagrams,        \* result.diagrams: slideIndex -> diagramCode
    errorLog,        \* slide indexes reported by the catch block (console.error)
    raised,          \* history: slide indexes whose callback had an error raised in it
    rejection        \* reason the returned promise rejected with, "none" otherwise

routerVars == <<services, health, lastChecked, lastResolve, adminOps, routing, pending, thrown>>
pipeVars == <<pc, generateVisuals, visualService, metadata, slides, visualPlans,
              planCalls, unit, visuals, charts, diagrams, errorLog, raised, rejection>>
vars == <<services, health, lastChecked, lastResolve, adminOps, routing, pending, thrown,
          pc, generateVisuals, visualService, metadata, slides, visualPlans,
          planCalls, unit, visuals, charts, diagrams, errorLog, raised, rejection>>

\* ------------------------------------------------------------------ bounds
\* longest slide sequence the text service returns in the model
MaxSlides == 3
\* most configureService / updateHealth calls in one behaviour
MaxAdminOps == 2
\* longest registry list handed to the ServiceManager constructor
MaxProviders == 3
\* most slides before the last one in a sequence handed to planVisuals alone
MaxLeadingSlides == 5

\* ------------------------------------------------------------------ helpers
NULL == "null"
NoRecord == "no-record"
NoMetadata == [keywords |-> "not-analyzed"]
EmptyMap == <<>>

Put(map, k, v) == [x \in (DOMAIN map) \cup {k} |-> IF x = k THEN v ELSE map[x]]

RECURSIVE SeqsUpTo(_, _)
SeqsUpTo(S, n) ==
    IF n = 0 THEN {<<>>}
    ELSE LET shorter == SeqsUpTo(S, n - 1)
         IN shorter \cup {Append(s, x) : s \in {t \in shorter : Len(t) = n - 1}, x \in S}

\* ------------------------------------------------------- service registry
SERVICE_REGISTRY ==
    << [id |-> "openai-gpt4",      type |-> "text-analysis",      enabled |-> TRUE,  priority |-> 1],
       [id |-> "anthropic-claude", type |-> "text-analysis",      enabled |-> TRUE,  priority |-> 2],
       [id |-> "google-gemini",    type |-> "text-analysis",      enabled |-> TRUE,  priority |-> 3],
       [id |-> "local-ollama",     type |-> "text-analysis",      enabled |-> FALSE, priority |-> 4],
       [id |-> "nano-banana",      type |-> "image-generation",   enabled |-> TRUE,  priority |-> 1],
       [id |-> "dall-e-3",         type |-> "image-generation",   enabled |-> TRUE,  priority |-> 2],
       [id |-> "midjourney",       type |-> "image-generation",   enabled |-> FALSE, priority |-> 3],
       [id |-> "stable-diffusion", type |-> "image-generation",   enabled |-> FALSE, priority |-> 4],
       [id |-> "quickchart",       type |-> "chart-generation",   enabled |-> TRUE,  priority |-> 1],
       [id |-> "chartjs-server",   type |-> "chart-generation",   enabled |-> TRUE,  priority |-> 2],
       [id |-> "mermaid",          type |-> "diagram-generation", enabled |-> TRUE,  priority |-> 1],
       [id |-> "plantuml",         type |-> "diagram-generation", enabled |-> TRUE,  priority |-> 2],
       [id |-> "katex",            type |-> "equation-rendering", enabled |-> TRUE,  priority |-> 1],
       [id |-> "mathjax",          type |-> "equation-rendering", enabled |-> TRUE,  priority |-> 2] >>

TASK_ROUTING ==
    << [task |-> "paper-analysis",           serviceType |-> "text-analysis",
        preferredServices |-> <<"openai-gpt4", "anthropic-claude", "google-gemini", "local-ollama">>,
        fallbackStrategy |-> "next-available"],
       [task |-> "slide-content-generation", serviceType |-> "text-analysis",
        preferredServices |-> <<"openai-gpt4", "anthropic-claude", "google-gemini">>,
        fallbackStrategy |-> "next-available"],
       [task |-> "speaker-script",           serviceType |-> "text-analysis",
        preferredServices |-> <<"anthropic-claude", "openai-gpt4">>,
        fallbackStrategy |-> "next-available"],
       [task |-> "slide-illustration",       serviceType |-> "image-generation",
        preferredServices |-> <<"nano-banana", "dall-e-3", "stable-diffusion">>,
        fallbackStrategy |-> "next-available"],
       [task |-> "slide-background",         serviceType |-> "image-generation",
        preferredServices |-> <<"nano-banana", "dall-e-3", "midjourney">>,
        fallbackStrategy |-> "next-available"],
       [task |-> "diagram-illustration",     serviceType |-> "image-generation",
        preferredServices |-> <<"dall-e-3", "nano-banana", "stable-diffusion">>,
        fallbackStrategy |-> "next-available"],
       [task |-> "concept-visualization",    serviceType |-> "image-generation",
        preferredServices |-> <<"nano-banana", "dall-e-3">>,
        fallbackStrategy |-> "next-available"],
       [task |-> "data-chart",               serviceType |-> "chart-generation",
        preferredServices |-> <<"quickchart", "chartjs-server">>,
        fallbackStrategy |-> "next-available"],
       [task |-> "flowchart",                serviceType |-> "diagram-generation",
        preferredServices |-> <<"mermaid", "plantuml">>,
        fallbackStrategy |-> "next-available"],
       [task |-> "sequence-diagram",         serviceType |-> "diagram-generation",
        preferredServices |-> <<"mermaid", "plantuml">>,
        fallbackStrategy |-> "next-available"],
       [task |-> "architecture-diagram",     serviceType |-> "diagram-generation",
        preferredServices |-> <<"plantuml", "mermaid">>,
        fallbackStrategy |-> "next-available"],
       [task |-> "equation-render",          serviceType |-> "equation-rendering",
        preferredServices |-> <<"katex", "mathjax">>,
        fallbackStrategy |-> "next-available"] >>

ServiceIds == {SERVICE_REGISTRY[i].id : i \in DOMAIN SERVICE_REGISTRY}
RoutedTasks == {TASK_ROUTING[i].task : i \in DOMAIN TASK_ROUTING}
HealthStatuses == {"healthy", "degraded", "down", "unknown"}

\* the inputs of the ServiceManager's methods
UnregisteredId == "not-registered"
UnroutedTask == "not-routed"
ServiceIdInputs == ServiceIds \cup {UnregisteredId}
AllTasks == RoutedTasks \cup {UnroutedTask}
\* the tasks the modelled callers ask for: one route of each shape of preferred list
TaskInputs ==
    {"paper-analysis", "speaker-script", "slide-illustration", "data-chart", UnroutedTask}
\* a UI toggle off (services-config.tsx) and initializeServices' { enabled: true, apiKey }
PartialConfigs == { [enabled |-> FALSE], [enabled |-> TRUE, apiKey |-> "key"] }

\* constructor: this.services.set(service.id, { ...service })
InitialServices ==
    [id \in ServiceIds |->
        LET n == CHOOSE i \in DOMAIN SERVICE_REGISTRY : SERVICE_REGISTRY[i].id = id
            s == SERVICE_REGISTRY[n]
        IN [type |-> s.type, priority |-> s.priority,
            config |-> [enabled |-> s.enabled, apiKey |-> "unset"], seq |-> n]]

\* a merge that starts from a fresh default configuration instead of the old one
MergeConfigFromDefault(old, partial) ==
    [f \in DOMAIN old \cup DOMAIN partial |->
        IF f \in DOMAIN partial THEN partial[f]
        ELSE IF f = "enabled" THEN FALSE ELSE "unset"]

\* { ...service.config, ...config }
MergeConfig(old, partial) ==
    [f \in DOMAIN old \cup DOMAIN partial |-> IF f \in DOMAIN partial THEN partial[f] ELSE old[f]]

\* the test of lines 58-60 without its health part (a router that ignores health)
IsSelectableIgnoringHealth(svc, hlt, serviceId) ==
    /\ serviceId \in DOMAIN svc
    /\ svc[serviceId].config.enabled

\* the test of lines 58-60 with every status but down accepted
IsSelectableUnlessDown(svc, hlt, serviceId) ==
    /\ serviceId \in DOMAIN svc
    /\ svc[serviceId].config.enabled
    /\ hlt[serviceId] # "down"

\* lines 57-60: service && service.config.enabled && (!health || health.status === 'healthy')
IsSelectable(svc, hlt, serviceId) ==
    /\ serviceId \in DOMAIN svc
    /\ svc[serviceId].config.enabled
    /\ (hlt[serviceId] = NoRecord \/ hlt[serviceId] = "healthy")

\* a lookup that falls back to the first route when the task is not found
RouteIndexOrFirst(task) ==
    LET hits == {i \in DOMAIN routing : routing[i].task = task}
    IN IF hits = {} THEN 1 ELSE CHOOSE i \in hits : \A j \in hits : i <= j

\* line 53: TASK_ROUTING.find(r => r.task === task), as a position in the table
\* in use; 0 when undefined
RouteIndex(task) ==
    LET hits == {i \in DOMAIN routing : routing[i].task = task}
    IN IF hits = {} THEN 0 ELSE CHOOSE i \in hits : \A j \in hits : i <= j

\* lines 56-66: the first selectable entry of the preferred list, null if none
FirstSelectable(svc, hlt, preferred) ==
    LET ok == {i \in DOMAIN preferred : IsSelectable(svc, hlt, preferred[i])}
    IN IF ok = {} THEN NULL
       ELSE preferred[CHOOSE i \in ok : \A j \in ok : i <= j]

\* ServiceManager.getServiceForTask: the id of the returned service, NULL for null
getServiceForTask(svc, hlt, task) ==
    LET r == RouteIndex(task)
    IN IF r = 0 THEN NULL
       ELSE FirstSelectable(svc, hlt, routing[r].preferredServices)

\* AIService.priority is optional: the encoding of a record without one
MissingPriority == -1
\* line 72: the sort key a.priority || 99 (undefined and 0 are falsy)
DefaultPriority == 99
SortKey(priority) ==
    IF priority = MissingPriority \/ priority = 0 THEN DefaultPriority ELSE priority

\* Array.prototype.sort is stable: the ids of S by ascending sort key, ids of
\* equal key in the Map's insertion order
RECURSIVE SortedByKey(_, _)
SortedByKey(svc, S) ==
    IF S = {} THEN <<>>
    ELSE LET first == CHOOSE a \in S : \A b \in S :
                         \/ SortKey(svc[a].priority) < SortKey(svc[b].priority)
                         \/ /\ SortKey(svc[a].priority) = SortKey(svc[b].priority)
                            /\ svc[a].seq <= svc[b].seq
         IN <<first>> \o SortedByKey(svc, S \ {first})

\* ServiceManager.getServicesByType: the ids of the returned services, in order
getServicesByType(svc, type) ==
    SortedByKey(svc, {id \in DOMAIN svc : svc[id].type = type /\ svc[id].config.enabled})

\* ------------------------------------------- domain-experts.ts task lookup
\* the services argument of the lookup: the registered services in list order
ServiceList ==
    [i \in DOMAIN SERVICE_REGISTRY |->
        [id |-> SERVICE_REGISTRY[i].id,
         type |-> services[SERVICE_REGISTRY[i].id].type,
         enabled |-> services[SERVICE_REGISTRY[i].id].config.enabled]]

taskMap ==
    ("image" :> "image-generation") @@ ("diagram" :> "diagram-generation") @@
    ("chart" :> "chart-generation") @@ ("equation" :> "equation-rendering") @@
    ("voice" :> "voice-generation") @@ ("layout" :> "slide-layout") @@
    ("citation" :> "citation-formatting")

\* the task names given to the lookup: mapped, mapped after lower-casing, unmapped
KindInputs == {"image", "Image", "CHART", "voice", "paper-analysis", UnroutedTask}

\* String.prototype.toLowerCase on the task names above
toLowerCase(str) ==
    CASE str = "Image" -> "image"
      [] str = "CHART" -> "chart"
      [] OTHER -> str

\* services.find(s => s.type === type && s.config.enabled), NULL for undefined
getActiveService(type, list) ==
    LET ok == {i \in DOMAIN list : list[i].type = type /\ list[i].enabled}
    IN IF ok = {} THEN NULL ELSE list[CHOOSE i \in ok : \A j \in ok : i <= j].id

\* domain-experts.ts getServiceForTask(task, services)
getServiceForKind(task, list) ==
    IF toLowerCase(task) \notin DOMAIN taskMap THEN NULL
    ELSE getActiveService(taskMap[toLowerCase(task)], list)

\* --------------------------------------- services-config.tsx updateServiceConfig
\* the component's services prop: the registered services as a list of records
ConfiguredList ==
    [i \in DOMAIN SERVICE_REGISTRY |->
        [id |-> SERVICE_REGISTRY[i].id,
         type |-> services[SERVICE_REGISTRY[i].id].type,
         priority |-> services[SERVICE_REGISTRY[i].id].priority,
         config |-> services[SERVICE_REGISTRY[i].id].config]]

\* updateServiceConfig(serviceId, config): services.find, then updateService maps
\* every entry of that id to { ...s, config: { ...service.config, ...config } };
\* the list handed to onUpdate
updateServiceConfig(list, serviceId, config) ==
    LET hits == {i \in DOMAIN list : list[i].id = serviceId}
    IN IF hits = {} THEN list
       ELSE LET service == list[CHOOSE i \in hits : \A j \in hits : i <= j]
                merged == MergeConfig(service.config, config)
            IN [i \in DOMAIN list |->
                  IF list[i].id = serviceId THEN [list[i] EXCEPT !.config = merged]
                  ELSE list[i]]

\* ------------------------------------------------------------ router actions
\* a configuration update that drops the record of a service it disables
configureServiceDropping(serviceId, config) ==
    /\ adminOps < MaxAdminOps
    /\ adminOps' = adminOps + 1
    /\ services' = IF serviceId \notin DOMAIN services THEN services
                   ELSE IF ~MergeConfig(services[serviceId].config, config).enabled
                   THEN [id \in DOMAIN services \ {serviceId} |-> services[id]]
                   ELSE [services EXCEPT ![serviceId].config = MergeConfig(@, config)]
    /\ thrown' = "none"
    /\ UNCHANGED <<health, lastChecked, lastResolve, routing, pending>>
    /\ UNCHANGED pipeVars

configureService(serviceId, config) ==
    /\ adminOps < MaxAdminOps
    /\ adminOps' = adminOps + 1
    /\ services' = IF serviceId \in DOMAIN services
                   THEN [services EXCEPT ![serviceId].config = MergeConfig(@, config)]
                   ELSE services
    /\ thrown' = "none"
    /\ UNCHANGED <<health, lastChecked, lastResolve, routing, pending>>
    /\ UNCHANGED pipeVars

\* a tracker that keeps the record with the later lastChecked
updateHealthNewestWins(serviceId, status, checkedAt) ==
    /\ adminOps < MaxAdminOps
    /\ adminOps' = adminOps + 1
    /\ IF checkedAt >= lastChecked[serviceId]
       THEN /\ health' = [health EXCEPT ![serviceId] = status]
            /\ lastChecked' = [lastChecked EXCEPT ![serviceId] = checkedAt]
       ELSE UNCHANGED <<health, lastChecked>>
    /\ thrown' = "none"
    /\ UNCHANGED <<services, lastResolve, routing, pending>>
    /\ UNCHANGED pipeVars

\* updateHealth(serviceId, health): this.health.set(serviceId, health), where
\* health carries the status and the lastChecked time of the probe
updateHealth(serviceId, status, checkedAt) ==
    /\ adminOps < MaxAdminOps
    /\ adminOps' = adminOps + 1
    /\ health' = [health EXCEPT ![serviceId] = status]
    /\ lastChecked' = [lastChecked EXCEPT ![serviceId] = checkedAt]
    /\ thrown' = "none"
    /\ UNCHANGED <<services, lastResolve, routing, pending>>
    /\ UNCHANGED pipeVars

\* a call that answers with any selectable preferred service, not the first
ResolveCallAnySelectable(task) ==
    /\ \E id \in {NULL} \cup DOMAIN services :
          /\ IF id = NULL
             THEN getServiceForTask(services, health, task) = NULL
             ELSE /\ RouteIndex(task) # 0
                  /\ \E i \in DOMAIN routing[RouteIndex(task)].preferredServices :
                        routing[RouteIndex(task)].preferredServices[i] = id
                  /\ IsSelectable(services, health, id)
          /\ lastResolve' = [task |-> task, result |-> id]
    /\ thrown' = "none"
    /\ UNCHANGED <<services, health, lastChecked, adminOps, routing, pending>>
    /\ UNCHANGED pipeVars

\* a call of getServiceForTask(task), its answer recorded
ResolveCall(task) ==
    /\ lastResolve' = [task |-> task, result |-> getServiceForTask(services, health, task)]
    /\ thrown' = "none"
    /\ UNCHANGED <<services, health, lastChecked, adminOps, routing, pending>>
    /\ UNCHANGED pipeVars

RouterNext ==
    \/ \E id \in ServiceIdInputs, c \in PartialConfigs : configureService(id, c)
    \/ \E id \in ServiceIds, st \in HealthStatuses : updateHealth(id, st, 1)
    \/ \E t \in TaskInputs : ResolveCall(t)

RouterInit ==
    /\ services = InitialServices
    /\ health = [id \in ServiceIds |-> NoRecord]
    /\ lastChecked = [id \in ServiceIds |-> 0]
    /\ lastResolve = [task |-> "no-call", result |-> NULL]
    /\ adminOps = 0
    /\ routing = TASK_ROUTING
    /\ pending = <<>>
    /\ thrown = "none"

\* ------------------------------------- construction from a registry list
\* The constructor and getServiceForTask read two data tables, SERVICE_REGISTRY
\* and TASK_ROUTING. This part runs the same code over other values of the
\* tables' types: registry lists that may repeat an id, and routes with each
\* fallbackStrategy the TaskRouting type allows.
ProviderInputs ==
    {[id |-> "quickchart", type |-> "chart-generation", enabled |-> e, priority |-> p] :
        e \in BOOLEAN, p \in {0, 1}}
    \cup {[id |-> "chartjs-server", type |-> "chart-generation", enabled |-> e, priority |-> p] :
        e \in BOOLEAN, p \in {1, MissingPriority}}
RegistryInputs == SeqsUpTo(ProviderInputs, MaxProviders)

FallbackStrategies == {"next-available", "fail", "degrade"}
RoutingInputs ==
    {<<[task |-> "data-chart", serviceType |-> "chart-generation",
        preferredServices |-> <<"quickchart">>, fallbackStrategy |-> f]>> : f \in FallbackStrategies}

\* ServiceHealth.lastChecked of the reports: probes may be reported out of order
CheckTimes == {1, 2}
RegistryIdInputs == {"quickchart", "chartjs-server", UnregisteredId}
RegistryTaskInputs == {"data-chart", UnroutedTask}

\* constructor, one turn of SERVICE_REGISTRY.forEach:
\* this.services.set(service.id, { ...service })
constructorSet ==
    /\ pending # <<>>
    /\ LET service == Head(pending)
           \* Map.set keeps the place of a key it already holds
           seq == IF service.id \in DOMAIN services THEN services[service.id].seq
                  ELSE Cardinality(DOMAIN services) + 1
       IN services' = Put(services, service.id,
                          [type |-> service.type, priority |-> service.priority,
                           config |-> [enabled |-> service.enabled, apiKey |-> "unset"],
                           seq |-> seq])
    /\ pending' = Tail(pending)
    /\ thrown' = "none"
    /\ UNCHANGED <<health, lastChecked, lastResolve, adminOps, routing>>
    /\ UNCHANGED pipeVars

\* the constructor has returned
Constructed == pending = <<>>

RegistryNext ==
    \/ constructorSet
    \/ Constructed /\ \E id \in RegistryIdInputs, c \in PartialConfigs : configureService(id, c)
    \/ Constructed /\ \E id \in RegistryIdInputs \ {UnregisteredId}, st \in HealthStatuses :
                        \E at \in CheckTimes : updateHealth(id, st, at)
    \/ Constructed /\ \E t \in RegistryTaskInputs : ResolveCall(t)

RegistryInit ==
    /\ services = EmptyMap
    /\ pending \in RegistryInputs
    /\ routing \in RoutingInputs
    /\ health = [id \in ServiceIds |-> NoRecord]
    /\ lastChecked = [id \in ServiceIds |-> 0]
    /\ lastResolve = [task |-> "no-call", result |-> NULL]
    /\ adminOps = 0
    /\ thrown = "none"

\* ------------------------------------------------------------ work planner
\* What planVisuals reads of an EnhancedSlide (parsed from the text service's JSON,
\* so title and content can be missing):
\*   layout  : slide.layout
\*   figure  : "none" (no slide.figure), "plain" (a figure without description),
\*             "described" (slide.figure.description is set)
\*   title   : "missing", "plain", "method" (the lower-cased title includes 'method')
\*   content : "missing", "plain", "percent" (a line with '%', 'increase' or
\*             'decrease'), "math" (a line with '$', '\' or 'equation'), "both"
FigureSlide   == [layout |-> "figure",  figure |-> "described", title |-> "plain",  content |-> "plain"]
DiagramSlide  == [layout |-> "content", figure |-> "none",      title |-> "method", content |-> "plain"]
ChartSlide    == [layout |-> "content", figure |-> "none",      title |-> "plain",  content |-> "percent"]
EquationSlide == [layout |-> "content", figure |-> "none",      title |-> "plain",  content |-> "math"]
PlainSlide    == [layout |-> "content", figure |-> "none",      title |-> "plain",  content |-> "plain"]
BrokenSlide   == [layout |-> "content", figure |-> "none",      title |-> "missing", content |-> "plain"]

\* the slides the modelled text service answers with
SlideInputs == {FigureSlide, DiagramSlide, ChartSlide, EquationSlide, PlainSlide, BrokenSlide}
\* metadata.keywords: an array, or missing from the parsed JSON
MetadataInputs == {[keywords |-> "present"], [keywords |-> "missing"]}
VisualServiceInputs == {"none", "nano-banana", "dall-e"}

\* every 5th slide gets a background illustration (line 244)
IllustrationPeriod == 5

HasPercent(slide) == slide.content \in {"percent", "both"}
HasMath(slide) == slide.content \in {"math", "both"}

\* the chart test made before the diagram test
PlanSlideChartFirst(slide, index, meta) ==
    LET plan(t, hasPrompt, hasData) ==
            [slideIndex |-> index, visualType |-> t, prompt |-> hasPrompt, data |-> hasData]
        throws == plan("throws", FALSE, FALSE)
    IN  IF slide.layout = "figure" \/ slide.figure # "none"
        THEN IF slide.figure # "described" /\ slide.content = "missing"
             THEN throws ELSE plan("illustration", TRUE, FALSE)
        ELSE IF slide.content = "missing" THEN throws
        ELSE IF slide.layout = "chart" \/ HasPercent(slide) THEN plan("chart", FALSE, TRUE)
        ELSE IF slide.layout # "diagram" /\ slide.title = "missing" THEN throws
        ELSE IF slide.layout = "diagram" \/ slide.title = "method"
        THEN plan("diagram", TRUE, FALSE)
        ELSE IF HasMath(slide) THEN plan("equation", FALSE, FALSE)
        ELSE IF index % IllustrationPeriod = 0 /\ index > 0
        THEN IF meta.keywords = "missing" THEN throws ELSE plan("illustration", TRUE, FALSE)
        ELSE plan("none", FALSE, FALSE)

\* lines 219-247 for one slide: the plan, with visualType "throws" when the
\* classification dereferences a missing title, content or keywords
PlanSlide(slide, index, meta) ==
    LET plan(t, hasPrompt, hasData) ==
            [slideIndex |-> index, visualType |-> t, prompt |-> hasPrompt, data |-> hasData]
        throws == plan("throws", FALSE, FALSE)
    IN  IF slide.layout = "figure" \/ slide.figure # "none"
        THEN IF slide.figure # "described" /\ slide.content = "missing"
             THEN throws ELSE plan("illustration", TRUE, FALSE)
        ELSE IF slide.layout # "diagram" /\ slide.title = "missing" THEN throws
        ELSE IF slide.layout = "diagram" \/ slide.title = "method"
        THEN IF slide.content = "missing" THEN throws ELSE plan("diagram", TRUE, FALSE)
        ELSE IF slide.content = "missing" THEN throws
        ELSE IF slide.layout = "chart" \/ HasPercent(slide) THEN plan("chart", FALSE, TRUE)
        ELSE IF HasMath(slide) THEN plan("equation", FALSE, FALSE)
        ELSE IF index % IllustrationPeriod = 0 /\ index > 0
        THEN IF meta.keywords = "missing" THEN throws ELSE plan("illustration", TRUE, FALSE)
        ELSE plan("none", FALSE, FALSE)

\* plans numbered from one instead of carrying forEach's index
RECURSIVE KeepPlansOneBased(_, _, _)
KeepPlansOneBased(ss, meta, i) ==
    IF i > Len(ss) THEN <<>>
    ELSE LET p == PlanSlide(ss[i], i, meta)
         IN IF p.visualType = "none" THEN KeepPlansOneBased(ss, meta, i + 1)
            ELSE <<p>> \o KeepPlansOneBased(ss, meta, i + 1)

RECURSIVE KeepPlans(_, _, _)
KeepPlans(ss, meta, i) ==
    IF i > Len(ss) THEN <<>>
    ELSE LET p == PlanSlide(ss[i], i - 1, meta)
         IN IF p.visualType = "none" THEN KeepPlans(ss, meta, i + 1)
            ELSE <<p>> \o KeepPlans(ss, meta, i + 1)

PlanThrows(ss, meta) ==
    \E i \in 1..Len(ss) : PlanSlide(ss[i], i - 1, meta).visualType = "throws"

\* planVisuals(slides, metadata): the plans of the slides whose type is not 'none'
planVisuals(ss, meta) == KeepPlans(ss, meta, 1)

PlanIndexes == {visualPlans[i].slideIndex : i \in DOMAIN visualPlans}

\* ---------------------------------------------------------------- pipeline
\* pc: "idle"              before the call
\*     "analyzing"         awaiting analyzePaperWithService          (line 308)
\*     "generatingSlides"  awaiting generateSlidesWithService        (line 312)
\*     "planning"          about to call planVisuals                 (line 321)
\*     "dispatching"       inside visualPlans.map                    (line 328)
\*     "fanout"            awaiting Promise.all(visualPromises)      (line 362)
\*     "aggregating"       after the join, logging the result        (lines 364-368)
\*     "complete"          the promise resolved with result          (lines 316, 370)
\*     "failed"            the promise rejected
\* Lines 313-362 run without suspending; they are split into steps so that the
\* order of planning and dispatch is visible, and nothing else is enabled between.

\* unit[i]: "notStarted", "awaitFetch" (line 151), "awaitJson" (line 164),
\*          "awaitChart" (line 350), "awaitDiagram" (line 354),
\*          "resolved", "rejected"
UnitSettled(i) == unit[i] \in {"resolved", "rejected"}
UnitStarted(i) == unit[i] # "notStarted"
Microtask(i) == unit[i] \in {"awaitChart", "awaitDiagram"}

\* the analysis call not awaited: slide generation starts while it is in flight
StartCallNoAwait(gv, vs) ==
    /\ pc = "idle"
    /\ pc' = "generatingSlides"
    /\ generateVisuals' = gv
    /\ visualService' = vs
    /\ UNCHANGED <<metadata, slides, visualPlans, planCalls, unit, visuals, charts,
                   diagrams, errorLog, rejection>>
    /\ UNCHANGED raised
    /\ UNCHANGED routerVars

\* lines 299-308: result is created and analyzePaperWithService is awaited
StartCall(gv, vs) ==
    /\ pc = "idle"
    /\ pc' = "analyzing"
    /\ generateVisuals' = gv
    /\ visualService' = vs
    /\ UNCHANGED <<metadata, slides, visualPlans, planCalls, unit, visuals, charts,
                   diagrams, errorLog, rejection>>
    /\ UNCHANGED raised
    /\ UNCHANGED routerVars

\* line 308: analyzePaperWithService resolves with the parsed metadata
AnalyzeOk(m) ==
    /\ pc = "analyzing"
    /\ metadata' = m
    /\ pc' = "generatingSlides"
    /\ UNCHANGED <<generateVisuals, visualService, slides, visualPlans, planCalls, unit,
                   visuals, charts, diagrams, errorLog, rejection>>
    /\ UNCHANGED raised
    /\ UNCHANGED routerVars

\* an analysis error swallowed: the run goes on with empty metadata
AnalyzeFailSwallowed ==
    /\ pc = "analyzing"
    /\ pc' = "generatingSlides"
    /\ rejection' = "analysis"
    /\ UNCHANGED <<generateVisuals, visualService, metadata, slides, visualPlans, planCalls,
                   unit, visuals, charts, diagrams, errorLog>>
    /\ UNCHANGED raised
    /\ UNCHANGED routerVars

\* line 308: analyzePaperWithService throws (unsupported provider, API error,
\* invalid response format, JSON.parse); nothing catches it
AnalyzeFail ==
    /\ pc = "analyzing"
    /\ pc' = "failed"
    /\ rejection' = "analysis"
    /\ UNCHANGED <<generateVisuals, visualService, metadata, slides, visualPlans, planCalls,
                   unit, visuals, charts, diagrams, errorLog>>
    /\ UNCHANGED raised
    /\ UNCHANGED routerVars

\* slide generation that skips the artifact stage only when no visual service
\* is configured, whatever generateVisuals says
SlidesOkIgnoringFlag(ss) ==
    /\ pc = "generatingSlides"
    /\ slides' = ss
    /\ pc' = IF visualService = "none" THEN "complete" ELSE "planning"
    /\ UNCHANGED <<generateVisuals, visualService, metadata, visualPlans, planCalls,
                   unit, visuals, charts, diagrams, errorLog, rejection>>
    /\ UNCHANGED raised
    /\ UNCHANGED routerVars

\* lines 312-317: the slides arrive; return early without a visual service
SlidesOk(ss) ==
    /\ pc = "generatingSlides"
    /\ slides' = ss
    /\ pc' = IF ~generateVisuals \/ visualService = "none" THEN "complete" ELSE "planning"
    /\ UNCHANGED <<generateVisuals, visualService, metadata, visualPlans, planCalls, unit,
                   visuals, charts, diagrams, errorLog, rejection>>
    /\ UNCHANGED raised
    /\ UNCHANGED routerVars

\* line 312: generateSlidesWithService throws; nothing catches it
SlidesFail ==
    /\ pc = "generatingSlides"
    /\ pc' = "failed"
    /\ rejection' = "slides"
    /\ UNCHANGED <<generateVisuals, visualService, metadata, slides, visualPlans, planCalls,
                   unit, visuals, charts, diagrams, errorLog>>
    /\ UNCHANGED raised
    /\ UNCHANGED routerVars

\* line 321: planVisuals(slides, metadata); a TypeError in it rejects the run
Plan ==
    /\ pc = "planning"
    /\ planCalls' = planCalls + 1
    /\ IF PlanThrows(slides, metadata)
       THEN /\ pc' = "failed"
            /\ rejection' = "planning"
            /\ UNCHANGED <<visualPlans, unit>>
       ELSE /\ pc' = "dispatching"
            /\ visualPlans' = planVisuals(slides, metadata)
            /\ unit' = [i \in 1..Len(planVisuals(slides, metadata)) |-> "notStarted"]
            /\ UNCHANGED rejection
    /\ UNCHANGED <<generateVisuals, visualService, metadata, slides, visuals, charts,
                   diagrams, errorLog>>
    /\ UNCHANGED raised
    /\ UNCHANGED routerVars

\* ----------------------------------------------------------------- fan-out
\* an error is raised inside the try block of callback i
Raise(i) == raised' = raised \cup {visualPlans[i].slideIndex}

\* a unit's error escaping its callback: the unit's promise rejects
UnitErrorEscapes(i) ==
    /\ unit' = [unit EXCEPT ![i] = "rejected"]
    /\ UNCHANGED errorLog

\* lines 357-359: the catch block of the callback logs the slide index and the
\* callback returns normally, so its promise resolves
UnitErrorCaught(i) ==
    /\ unit' = [unit EXCEPT ![i] = "resolved"]
    /\ errorLog' = errorLog \cup {visualPlans[i].slideIndex}

\* Promise.race in place of Promise.all: settled as soon as one unit is
PromiseRaceSettled ==
    \/ unit = <<>>
    \/ \E i \in DOMAIN unit : UnitSettled(i)

\* line 362: Promise.all(visualPromises) fulfils once every promise has, and
\* rejects as soon as one has
PromiseAllSettled ==
    \/ \A i \in DOMAIN unit : unit[i] = "resolved"
    \/ \E i \in DOMAIN unit : unit[i] = "rejected"

\* the callback of line 328 for plan i, run up to its first suspension
\* (visualPlans.map calls the callbacks in index order)
Dispatch(i) ==
    /\ pc = "dispatching"
    /\ i \in DOMAIN unit
    /\ unit[i] = "notStarted"
    /\ \A j \in 1..(i - 1) : UnitStarted(j)
    /\ LET plan == visualPlans[i]
       IN IF plan.visualType = "illustration" /\ plan.prompt
          THEN IF metadata.keywords = "missing"        \* line 340: keywords[0]
               THEN Raise(i) /\ UnitErrorCaught(i)
               ELSE /\ unit' = [unit EXCEPT ![i] =
                                  IF visualService = "nano-banana" THEN "awaitFetch"
                                  ELSE "resolved"]
                    /\ UNCHANGED <<errorLog, raised>>
          ELSE /\ unit' = [unit EXCEPT ![i] =
                             IF plan.visualType = "chart" /\ plan.data THEN "awaitChart"
                             ELSE IF plan.visualType = "diagram" THEN "awaitDiagram"
                             ELSE "resolved"]
               /\ UNCHANGED <<errorLog, raised>>
    /\ UNCHANGED <<pc, generateVisuals, visualService, metadata, slides, visualPlans,
                   planCalls, visuals, charts, diagrams, rejection>>
    /\ UNCHANGED routerVars

\* line 362: every callback has run to its first suspension; await Promise.all
AwaitAll ==
    /\ pc = "dispatching"
    /\ \A i \in DOMAIN unit : UnitStarted(i)
    /\ pc' = "fanout"
    /\ UNCHANGED <<generateVisuals, visualService, metadata, slides, visualPlans,
                   planCalls, unit, visuals, charts, diagrams, errorLog, rejection>>
    /\ UNCHANGED raised
    /\ UNCHANGED routerVars

\* The continuations of `await generateChart` / `await generateDiagram` are
\* microtasks: they run in dispatch order and before any network completion.
NextMicrotask(i) == Microtask(i) /\ \A j \in 1..(i - 1) : ~Microtask(j)
NoMicrotask == \A j \in DOMAIN unit : ~Microtask(j)

\* lines 350-351: generateChart builds a URL and cannot throw
ChartDone(i) ==
    /\ pc = "fanout"
    /\ i \in DOMAIN unit
    /\ unit[i] = "awaitChart"
    /\ NextMicrotask(i)
    /\ charts' = Put(charts, visualPlans[i].slideIndex, <<"chartUrl", visualPlans[i].slideIndex>>)
    /\ unit' = [unit EXCEPT ![i] = "resolved"]
    /\ UNCHANGED <<pc, generateVisuals, visualService, metadata, slides, visualPlans,
                   planCalls, visuals, diagrams, errorLog, rejection>>
    /\ UNCHANGED raised
    /\ UNCHANGED routerVars

\* the diagram branch storing its code in the charts map
DiagramDoneIntoCharts(i) ==
    /\ pc = "fanout"
    /\ i \in DOMAIN unit
    /\ unit[i] = "awaitDiagram"
    /\ NextMicrotask(i)
    /\ charts' = Put(charts, visualPlans[i].slideIndex, <<"mermaid", visualPlans[i].slideIndex>>)
    /\ unit' = [unit EXCEPT ![i] = "resolved"]
    /\ UNCHANGED <<pc, generateVisuals, visualService, metadata, slides, visualPlans,
                   planCalls, visuals, diagrams, errorLog, rejection>>
    /\ UNCHANGED raised
    /\ UNCHANGED routerVars

\* lines 354-355: generateDiagram builds mermaid code and cannot throw
DiagramDone(i) ==
    /\ pc = "fanout"
    /\ i \in DOMAIN unit
    /\ unit[i] = "awaitDiagram"
    /\ NextMicrotask(i)
    /\ diagrams' = Put(diagrams, visualPlans[i].slideIndex, <<"diagramCode", visualPlans[i].slideIndex>>)
    /\ unit' = [unit EXCEPT ![i] = "resolved"]
    /\ UNCHANGED <<pc, generateVisuals, visualService, metadata, slides, visualPlans,
                   planCalls, visuals, charts, errorLog, rejection>>
    /\ UNCHANGED raised
    /\ UNCHANGED routerVars

\* lines 151-160: fetch answers with response.ok
FetchOk(i) ==
    /\ pc = "fanout"
    /\ i \in DOMAIN unit
    /\ unit[i] = "awaitFetch"
    /\ NoMicrotask
    /\ unit' = [unit EXCEPT ![i] = "awaitJson"]
    /\ UNCHANGED <<pc, generateVisuals, visualService, metadata, slides, visualPlans,
                   planCalls, visuals, charts, diagrams, errorLog, rejection>>
    /\ UNCHANGED raised
    /\ UNCHANGED routerVars

\* a failed request also reported to the health map as the provider being down
FetchFailReportsDown(i) ==
    /\ pc = "fanout"
    /\ i \in DOMAIN unit
    /\ unit[i] = "awaitFetch"
    /\ NoMicrotask
    /\ Raise(i)
    /\ UnitErrorCaught(i)
    /\ health' = [health EXCEPT !["nano-banana"] = "down"]
    /\ UNCHANGED <<pc, generateVisuals, visualService, metadata, slides, visualPlans,
                   planCalls, visuals, charts, diagrams, rejection>>
    /\ UNCHANGED <<services, lastChecked, lastResolve, adminOps, routing, pending, thrown>>

\* lines 151-169: fetch rejects, or answers with !response.ok; generateWithNanoBanana
\* rethrows into the callback
FetchFail(i) ==
    /\ pc = "fanout"
    /\ i \in DOMAIN unit
    /\ unit[i] = "awaitFetch"
    /\ NoMicrotask
    /\ Raise(i)
    /\ UnitErrorCaught(i)
    /\ UNCHANGED <<pc, generateVisuals, visualService, metadata, slides, visualPlans,
                   planCalls, visuals, charts, diagrams, rejection>>
    /\ UNCHANGED routerVars

\* the image stored at the next free position, in order of arrival
JsonOkAppend(i) ==
    /\ pc = "fanout"
    /\ i \in DOMAIN unit
    /\ unit[i] = "awaitJson"
    /\ NoMicrotask
    /\ visuals' = Put(visuals, Cardinality(DOMAIN visuals), <<"imageUrl", visualPlans[i].slideIndex>>)
    /\ unit' = [unit EXCEPT ![i] = "resolved"]
    /\ UNCHANGED <<pc, generateVisuals, visualService, metadata, slides, visualPlans,
                   planCalls, charts, diagrams, errorLog, rejection>>
    /\ UNCHANGED raised
    /\ UNCHANGED routerVars

\* lines 164-165, 345-346: the body parses; result.visuals.set(slideIndex, imageUrl)
JsonOk(i) ==
    /\ pc = "fanout"
    /\ i \in DOMAIN unit
    /\ unit[i] = "awaitJson"
    /\ NoMicrotask
    /\ visuals' = Put(visuals, visualPlans[i].slideIndex, <<"imageUrl", visualPlans[i].slideIndex>>)
    /\ unit' = [unit EXCEPT ![i] = "resolved"]
    /\ UNCHANGED <<pc, generateVisuals, visualService, metadata, slides, visualPlans,
                   planCalls, charts, diagrams, errorLog, rejection>>
    /\ UNCHANGED raised
    /\ UNCHANGED routerVars

\* lines 164-169: response.json() rejects
JsonFail(i) ==
    /\ pc = "fanout"
    /\ i \in DOMAIN unit
    /\ unit[i] = "awaitJson"
    /\ NoMicrotask
    /\ Raise(i)
    /\ UnitErrorCaught(i)
    /\ UNCHANGED <<pc, generateVisuals, visualService, metadata, slides, visualPlans,
                   planCalls, visuals, charts, diagrams, rejection>>
    /\ UNCHANGED routerVars

\* the join turned into a failure when some unit logged an error
JoinFailsOnError ==
    /\ pc = "fanout"
    /\ PromiseAllSettled
    /\ IF errorLog # {} \/ \E i \in DOMAIN unit : unit[i] = "rejected"
       THEN pc' = "failed" /\ rejection' = "unit"
       ELSE pc' = "aggregating" /\ UNCHANGED rejection
    /\ UNCHANGED <<generateVisuals, visualService, metadata, slides, visualPlans,
                   planCalls, unit, visuals, charts, diagrams, errorLog>>
    /\ UNCHANGED raised
    /\ UNCHANGED routerVars

\* a join that opens only when no unit logged an error: one failed unit leaves
\* the run waiting at line 362 for ever
JoinWaitsForSuccess ==
    /\ pc = "fanout"
    /\ PromiseAllSettled
    /\ errorLog = {}
    /\ IF \E i \in DOMAIN unit : unit[i] = "rejected"
       THEN pc' = "failed" /\ rejection' = "unit"
       ELSE pc' = "aggregating" /\ UNCHANGED rejection
    /\ UNCHANGED <<generateVisuals, visualService, metadata, slides, visualPlans,
                   planCalls, unit, visuals, charts, diagrams, errorLog>>
    /\ UNCHANGED raised
    /\ UNCHANGED routerVars

\* line 362: the awaited Promise.all settles
Join ==
    /\ pc = "fanout"
    /\ PromiseAllSettled
    /\ IF \E i \in DOMAIN unit : unit[i] = "rejected"
       THEN pc' = "failed" /\ rejection' = "unit"
       ELSE pc' = "aggregating" /\ UNCHANGED rejection
    /\ UNCHANGED <<generateVisuals, visualService, metadata, slides, visualPlans,
                   planCalls, unit, visuals, charts, diagrams, errorLog>>
    /\ UNCHANGED raised
    /\ UNCHANGED routerVars

\* lines 364-370: log the sizes and return result
Return ==
    /\ pc = "aggregating"
    /\ pc' = "complete"
    /\ UNCHANGED <<generateVisuals, visualService, metadata, slides, visualPlans,
                   planCalls, unit, visuals, charts, diagrams, errorLog, rejection>>
    /\ UNCHANGED raised
    /\ UNCHANGED routerVars

PipeNext ==
    \/ \E gv \in BOOLEAN, vs \in VisualServiceInputs : StartCall(gv, vs)
    \/ \E m \in MetadataInputs : AnalyzeOk(m)
    \/ AnalyzeFail
    \/ \E ss \in SeqsUpTo(SlideInputs, MaxSlides) : SlidesOk(ss)
    \/ SlidesFail
    \/ Plan
    \/ \E i \in 1..MaxSlides : Dispatch(i)
    \/ AwaitAll
    \/ \E i \in 1..MaxSlides : ChartDone(i)
    \/ \E i \in 1..MaxSlides : DiagramDone(i)
    \/ \E i \in 1..MaxSlides : FetchOk(i)
    \/ \E i \in 1..MaxSlides : FetchFail(i)
    \/ \E i \in 1..MaxSlides : JsonOk(i)
    \/ \E i \in 1..MaxSlides : JsonFail(i)
    \/ Join
    \/ Return

PipeIdle ==
    /\ pc = "idle"
    /\ generateVisuals = FALSE
    /\ visualService = "none"
    /\ metadata = NoMetadata
    /\ slides = <<>>
    /\ visualPlans = <<>>
    /\ planCalls = 0
    /\ unit = <<>>
    /\ visuals = EmptyMap
    /\ charts = EmptyMap
    /\ diagrams = EmptyMap
    /\ errorLog = {}
    /\ raised = {}
    /\ rejection = "none"

Init == RouterInit /\ PipeIdle

\* ----------------------------------------------------- planVisuals alone
\* every combination of what planVisuals reads of a slide
SlideShapes ==
    [layout : {"content", "figure", "diagram", "chart"},
     figure : {"none", "plain", "described"},
     title : {"missing", "plain", "method"},
     content : {"missing", "plain", "percent", "math", "both"}]

\* the sequences handed to planVisuals: slides that are kept or dropped
\* whatever their position, then one slide of any shape
PlannerInputs ==
    {Append(lead, last) :
        lead \in SeqsUpTo({PlainSlide, ChartSlide}, MaxLeadingSlides), last \in SlideShapes}

\* orchestratePresentation at line 321, about to call planVisuals(slides, metadata)
InitPlanner ==
    /\ RouterInit
    /\ pc = "planning"
    /\ generateVisuals = TRUE
    /\ visualService = "nano-banana"
    /\ metadata \in MetadataInputs
    /\ slides \in PlannerInputs
    /\ visualPlans = <<>>
    /\ planCalls = 0
    /\ unit = <<>>
    /\ visuals = EmptyMap
    /\ charts = EmptyMap
    /\ diagrams = EmptyMap
    /\ errorLog = {}
    /\ raised = {}
    /\ rejection = "none"

PlannerNext == Plan
SpecPlanner == InitPlanner /\ [][PlannerNext]_vars

\* one call of orchestratePresentation, the registry left as constructed
Spec == Init /\ [][PipeNext]_vars

\* the ServiceManager alone: administrative calls and task resolution
SpecRouter == Init /\ [][RouterNext]_vars

\* the ServiceManager constructed from a registry list, over a routing table
\* lines 308, 312, 345, 350, 354 and 151-171: an awaited provider call returns or
\* fails (analysis, slide generation, and each unit's fetch, body read, chart or
\* diagram call)
ProviderReturns ==
    \/ \E m \in MetadataInputs : AnalyzeOk(m)
    \/ AnalyzeFail
    \/ pc = "generatingSlides" /\ \E ss \in SeqsUpTo(SlideInputs, MaxSlides) : SlidesOk(ss)
    \/ SlidesFail
    \/ \E i \in 1..MaxSlides : ChartDone(i)
    \/ \E i \in 1..MaxSlides : DiagramDone(i)
    \/ \E i \in 1..MaxSlides : FetchOk(i)
    \/ \E i \in 1..MaxSlides : FetchFail(i)
    \/ \E i \in 1..MaxSlides : JsonOk(i)
    \/ \E i \in 1..MaxSlides : JsonFail(i)

\* lines 319-370: the synchronous code between two awaits and the continuations
\* queued for it, which the event loop always runs
EventLoopTurn ==
    \/ Plan
    \/ \E i \in 1..MaxSlides : Dispatch(i)
    \/ AwaitAll
    \/ Join
    \/ Return

\* a run whose provider calls all settle and whose continuations are all run
SpecLive ==
    /\ Init
    /\ [][PipeNext]_vars
    /\ WF_vars(ProviderReturns)
    /\ WF_vars(EventLoopTurn)

InitRegistry == RegistryInit /\ PipeIdle
SpecRegistry == InitRegistry /\ [][RegistryNext]_vars

\* ============================================================== the claims
\* The result's maps as the specification names them: artifactsByIndex is the
\* union of visuals, charts and diagrams; the failures of a run are the slide
\* indexes the catch block of the callback reported.
ArtifactKeys == (DOMAIN visuals) \cup (DOMAIN charts) \cup (DOMAIN diagrams)
FailureKeys == errorLog
ReturnedAfterFanOut == pc = "complete" /\ planCalls > 0
AllUnitsFailed == visualPlans # <<>> /\ ArtifactKeys = {} /\ FailureKeys = PlanIndexes

\* C1: in every result returned by a run that reached the fan-out, every index
\* planned by planVisuals is a key of exactly one of the artifact maps or the
\* failures: never both, never neither.
C1_ExactlyOneMap ==
    ReturnedAfterFanOut =>
        \A k \in PlanIndexes :
            /\ k \in ArtifactKeys \/ k \in FailureKeys
            /\ ~(k \in ArtifactKeys /\ k \in FailureKeys)

\* C2: an error raised in one unit is caught inside it and reported under that
\* unit's slide index; no unit's promise rejects, the run is never rejected
\* because of a unit, and once the run has returned every sibling of a failed
\* unit has run to its completion.
C2_FailureIsolated ==
    /\ \A i \in DOMAIN unit : unit[i] # "rejected"
    /\ raised \subseteq errorLog
    /\ raised # {} => (pc # "failed" /\ rejection = "none")
    /\ (raised # {} /\ pc = "complete") => \A i \in DOMAIN unit : unit[i] = "resolved"

\* C2 witness: a returned run in which one unit failed and a sibling, whose
\* fetch was answered, stored its image.
C2_Witness ==
    /\ pc = "complete"
    /\ raised # {}
    /\ visuals # EmptyMap
    /\ Len(visualPlans) >= 2

\* C3: when the analysis call fails the run is Failed at once: planVisuals is
\* never called, no slides are generated and no unit is ever created.
C3_AnalysisFailureFatal ==
    rejection = "analysis" =>
        /\ pc = "failed"
        /\ planCalls = 0
        /\ slides = <<>> /\ visualPlans = <<>> /\ unit = <<>>
        /\ ArtifactKeys = {} /\ errorLog = {}

C3_Witness == rejection = "analysis" /\ pc = "failed" /\ generateVisuals /\ visualService = "nano-banana"

\* C4: the run ends Failed exactly when a critical-path step (analysis, slide
\* generation, planning) failed, and Complete only when none did; errors of the
\* units, even of all of them, never make the run Failed.
C4_TerminalState ==
    /\ pc = "failed" <=> rejection \in {"analysis", "slides", "planning"}
    /\ rejection # "none" => pc = "failed"
    /\ pc = "complete" =>
          /\ metadata # NoMetadata
          /\ planCalls > 0 => ~PlanThrows(slides, metadata)
    /\ pc = "failed" => raised = {}

\* C4 witness: every planned item failed and the run is Complete.
C4_Witness == pc = "complete" /\ AllUnitsFailed /\ Len(visualPlans) >= 2

\* C5: the fan-out is a join: the run does not go on to aggregate or return
\* before every dispatched unit has settled.
C5_JoinBarrier ==
    (pc \in {"aggregating", "complete"} /\ planCalls > 0) =>
        /\ DOMAIN unit = DOMAIN visualPlans
        /\ \A i \in DOMAIN unit : UnitSettled(i)

\* C5 witness: the join has passed with several units, one that ended in an
\* error and one that stored an image, both after network waits.
C5_Witness ==
    /\ pc = "aggregating"
    /\ Len(visualPlans) >= 3
    /\ errorLog # {}
    /\ visuals # EmptyMap

\* C6: analysis completes before planning starts and planning completes before
\* any unit starts: no unit exists while a critical-path step is in progress.
C6_CriticalPathOrder ==
    /\ pc \in {"planning", "dispatching", "fanout", "aggregating"} => metadata # NoMetadata
    /\ planCalls > 0 => (metadata # NoMetadata /\ pc \notin {"idle", "analyzing", "generatingSlides"})
    /\ pc \in {"idle", "analyzing", "generatingSlides", "planning"} => (unit = <<>> /\ visualPlans = <<>>)
    /\ (\E i \in DOMAIN unit : UnitStarted(i)) =>
          /\ planCalls = 1
          /\ ~PlanThrows(slides, metadata)
          /\ visualPlans = planVisuals(slides, metadata)
          /\ pc \in {"dispatching", "fanout", "aggregating", "complete"}

\* C6 witness: a unit is awaiting its provider while others are still to start.
C6_Witness ==
    /\ pc = "dispatching"
    /\ \E i \in DOMAIN unit : unit[i] = "awaitFetch"
    /\ \E i \in DOMAIN unit : ~UnitStarted(i)

\* C7: with N planned items indexed 0..N-1 of which M had an error raised, the
\* result has N - M artifact keys and M failure keys, disjoint, together 0..N-1.
C7_CountsPartition ==
    (ReturnedAfterFanOut /\ PlanIndexes = 0..(Len(visualPlans) - 1)) =>
        LET N == Len(visualPlans)
            M == Cardinality(raised)
        IN /\ Cardinality(ArtifactKeys) = N - M
           /\ Cardinality(FailureKeys) = M
           /\ ArtifactKeys \cap FailureKeys = {}
           /\ ArtifactKeys \cup FailureKeys = 0..(N - 1)

\* The provider the specification's router would select: the earliest entry of
\* the preferred list that is registered, enabled and not down.
FirstNotDown(preferred) ==
    LET ok == {i \in DOMAIN preferred : IsSelectableUnlessDown(services, health, preferred[i])}
    IN IF ok = {} THEN NULL
       ELSE preferred[CHOOSE i \in ok : \A j \in ok : i <= j]

\* the earliest entry of the preferred list that is registered and enabled
FirstEnabled(preferred) ==
    LET ok == {i \in DOMAIN preferred : IsSelectableIgnoringHealth(services, health, preferred[i])}
    IN IF ok = {} THEN NULL
       ELSE preferred[CHOOSE i \in ok : \A j \in ok : i <= j]

Preferred(task) == routing[RouteIndex(task)].preferredServices
Resolved(task) == getServiceForTask(services, health, task)
\* the recorded call is what getServiceForTask answers in the current state
\* (no configureService / updateHealth since has changed the answer)
ResolveIsFresh == lastResolve.task \in TaskInputs /\ lastResolve.result = Resolved(lastResolve.task)
CalledRouted == lastResolve.task \in RoutedTasks /\ ResolveIsFresh

\* C8: for every routed task, getServiceForTask returns the earliest preferred
\* provider that is enabled and not down, never a later one.
C8_EarliestEligible ==
    CalledRouted => lastResolve.result = FirstNotDown(Preferred(lastResolve.task))

\* C9: after any sequence of configureService and updateHealth calls,
\* getServiceForTask never returns a provider that is disabled or whose latest
\* health status is down.
C9_NeverDisabledOrDown ==
    \A t \in AllTasks :
        LET r == Resolved(t)
        IN r # NULL =>
            /\ r \in DOMAIN services
            /\ services[r].config.enabled
            /\ health[r] # "down"

\* C9 witness: the first preferred provider was disabled, the second reported
\* down, and the call returned the third.
C9_Witness ==
    /\ ~services["openai-gpt4"].config.enabled
    /\ health["anthropic-claude"] = "down"
    /\ lastResolve = [task |-> "paper-analysis", result |-> "google-gemini"]
    /\ ResolveIsFresh

\* C10: a degraded provider is accepted: when the first enabled preferred
\* provider of a routed task is degraded, getServiceForTask returns it (so a
\* route whose preferred providers are all enabled and degraded still resolves).
C10_DegradedAccepted ==
    CalledRouted =>
        LET first == FirstEnabled(Preferred(lastResolve.task))
        IN (first # NULL /\ health[first] = "degraded") => lastResolve.result = first

\* C11: unknown health is eligible in both of its forms: when the first enabled
\* preferred provider of a routed task has no health record, or has reported
\* the status unknown, getServiceForTask returns it.
C11_UnknownEligible ==
    CalledRouted =>
        LET first == FirstEnabled(Preferred(lastResolve.task))
        IN (first # NULL /\ health[first] \in {NoRecord, "unknown"}) => lastResolve.result = first

\* The fallback the specification describes for a next-available route: the
\* registered providers of the route's service type outside the preferred list
\* that are enabled and not down, the first of them by priority (ties by
\* registration order).
RegistrationIndex(id) == CHOOSE i \in DOMAIN SERVICE_REGISTRY : SERVICE_REGISTRY[i].id = id
IsBefore(a, b) ==
    \/ services[a].priority < services[b].priority
    \/ services[a].priority = services[b].priority /\ RegistrationIndex(a) <= RegistrationIndex(b)
NonPreferredCandidates(task) ==
    LET route == routing[RouteIndex(task)]
        preferred == {route.preferredServices[i] : i \in DOMAIN route.preferredServices}
    IN {id \in DOMAIN services \ preferred :
            /\ services[id].type = route.serviceType
            /\ services[id].config.enabled
            /\ health[id] # "down"}
NextAvailable(task) ==
    LET cands == NonPreferredCandidates(task)
    IN IF cands = {} THEN NULL ELSE CHOOSE a \in cands : \A b \in cands : IsBefore(a, b)

\* C12: for a route whose fallbackStrategy is next-available, when every
\* preferred provider is disabled and some non-preferred registered provider of
\* the route's service type is enabled and not down, getServiceForTask returns
\* the first such provider in priority order.
C12_NextAvailableFallback ==
    (/\ CalledRouted
     /\ routing[RouteIndex(lastResolve.task)].fallbackStrategy = "next-available"
     /\ FirstEnabled(Preferred(lastResolve.task)) = NULL
     /\ NextAvailable(lastResolve.task) # NULL)
        => lastResolve.result = NextAvailable(lastResolve.task)

\* C13: a task name that is not in the routing table never resolves to a
\* provider, whatever the registry and health state: getServiceForTask answers
\* null for it (the recorded call and every state), and the task lookup of
\* domain-experts.ts answers undefined for a name its task map does not hold.
C13_UnknownTaskFails ==
    /\ lastResolve.task \in TaskInputs \ RoutedTasks => lastResolve.result = NULL
    /\ \A t \in AllTasks \ RoutedTasks : Resolved(t) = NULL
    /\ \A t \in KindInputs :
          toLowerCase(t) \notin DOMAIN taskMap => getServiceForKind(t, ServiceList) = NULL

\* C13 witness: the unrouted task was asked for after the registry and the
\* health records had been changed, while routed tasks do resolve.
C13_Witness ==
    /\ lastResolve = [task |-> UnroutedTask, result |-> NULL]
    /\ \E id \in ServiceIds : health[id] # NoRecord
    /\ services # InitialServices
    /\ Resolved("paper-analysis") # NULL
    /\ getServiceForKind("Image", ServiceList) # NULL

\* the fallbackStrategy of the route of the recorded call
CalledStrategy == routing[RouteIndex(lastResolve.task)].fallbackStrategy
\* the recorded call was for a routed task whose preferred providers are all
\* registered and none of them is both enabled and not down
NoPreferredQualifies ==
    /\ Constructed
    /\ CalledRouted
    /\ \A i \in DOMAIN Preferred(lastResolve.task) :
          Preferred(lastResolve.task)[i] \in DOMAIN services
    /\ FirstNotDown(Preferred(lastResolve.task)) = NULL

ProviderInvoked(i) == unit[i] \in {"awaitFetch", "awaitJson", "awaitChart", "awaitDiagram"}

\* C17: in the fan-out every unit asks the router for the provider of its kind
\* before it invokes one: while a unit is inside its provider call, a
\* getServiceForTask call has been made.
C17_UnitResolvesProvider ==
    \A i \in DOMAIN unit : ProviderInvoked(i) => lastResolve.task # "no-call"

\* the slide indexes of the units that have finished without an error, by kind
Succeeded(i) == unit[i] = "resolved" /\ visualPlans[i].slideIndex \notin raised
ImageIndexes ==
    {visualPlans[i].slideIndex : i \in {j \in DOMAIN unit :
        /\ Succeeded(j)
        /\ visualPlans[j].visualType = "illustration" /\ visualPlans[j].prompt
        /\ visualService = "nano-banana"}}
ChartIndexes ==
    {visualPlans[i].slideIndex : i \in {j \in DOMAIN unit :
        Succeeded(j) /\ visualPlans[j].visualType = "chart" /\ visualPlans[j].data}}
DiagramIndexes ==
    {visualPlans[i].slideIndex : i \in {j \in DOMAIN unit :
        Succeeded(j) /\ visualPlans[j].visualType = "diagram"}}

\* C18: the result's maps are keyed by the planned slide indexes and depend
\* only on which units succeeded, not on the order they completed in: at every
\* moment each map holds exactly the successful units of its kind, each under
\* its own slide index with its own artifact, and the failures are exactly the
\* units that had an error raised.
C18_OrderIndependent ==
    /\ visuals = [k \in ImageIndexes |-> <<"imageUrl", k>>]
    /\ charts = [k \in ChartIndexes |-> <<"chartUrl", k>>]
    /\ diagrams = [k \in DiagramIndexes |-> <<"diagramCode", k>>]
    /\ errorLog = raised
    /\ ArtifactKeys \cup FailureKeys \subseteq PlanIndexes

\* C18 witness: a later unit has stored its image while an earlier unit is
\* still waiting for its answer, and a third one has failed.
C18_Witness ==
    /\ pc = "fanout"
    /\ \E i, j \in DOMAIN unit :
          /\ i < j
          /\ unit[i] \in {"awaitFetch", "awaitJson"}
          /\ unit[j] = "resolved"
          /\ visualPlans[j].slideIndex \in DOMAIN visuals
    /\ raised # {}

C20_UnknownProviderRejected ==
    [][\A c \in PartialConfigs :
          configureService(UnregisteredId, c)
              => (thrown' = "UnknownProviderError" /\ services' = services)]_vars

\* what a configuration update of serviceId may change between two records of
\* that service: the fields named by config take the given values, and the
\* type, the priority and the fields config does not name stay as they were
OnlyNamedFieldsChange(before, after, config) ==
    /\ after.type = before.type
    /\ after.priority = before.priority
    /\ DOMAIN after.config = DOMAIN before.config \cup DOMAIN config
    /\ \A f \in DOMAIN config : after.config[f] = config[f]
    /\ \A f \in DOMAIN before.config \ DOMAIN config : after.config[f] = before.config[f]

\* C21: a configuration update of a registered provider changes only the named
\* configuration fields of that one record: the other records, the record's
\* type and priority, its unnamed configuration fields and every health record
\* stay unchanged. Stated of configureService and of the settings component's
\* updateServiceConfig.
C21_ConfigureFrame ==
    [][\A id \in ServiceIds, c \in PartialConfigs :
          configureService(id, c) =>
              /\ health' = health
              /\ DOMAIN services' = DOMAIN services
              /\ \A o \in DOMAIN services \ {id} : services'[o] = services[o]
              /\ OnlyNamedFieldsChange(services[id], services'[id], c)
              /\ LET list == ConfiguredList
                     updated == updateServiceConfig(list, id, c)
                 IN /\ DOMAIN updated = DOMAIN list
                    /\ \A i \in DOMAIN list :
                          /\ updated[i].id = list[i].id
                          /\ IF list[i].id = id
                             THEN OnlyNamedFieldsChange(list[i], updated[i], c)
                             ELSE updated[i] = list[i]]_vars

\* C21 witness: a service that was given an api key has then been disabled and
\* kept the key, the other services as constructed.
C21_Witness ==
    \E id \in ServiceIds :
        /\ ~services[id].config.enabled
        /\ services[id].config.apiKey = "key"
        /\ \A o \in ServiceIds \ {id} : services[o] = InitialServices[o]

ServiceTypes == {SERVICE_REGISTRY[i].type : i \in DOMAIN SERVICE_REGISTRY}

\* C22: getServicesByType returns all registered providers of the type and only
\* those, each once, ordered by ascending priority with registration order as
\* tie-break, for every assignment of priorities, 0 and a missing one included
\* (a provider without a priority is only required to be listed).
C22_ListByTypeOrdered ==
    Constructed =>
        \A type \in ServiceTypes :
            LET list == getServicesByType(services, type)
            IN /\ {list[i] : i \in DOMAIN list} = {id \in DOMAIN services : services[id].type = type}
               /\ \A i, j \in DOMAIN list : i < j =>
                    LET a == services[list[i]]
                        b == services[list[j]]
                    IN /\ list[i] # list[j]
                       /\ (a.priority # MissingPriority /\ b.priority # MissingPriority) =>
                            \/ a.priority < b.priority
                            \/ a.priority = b.priority /\ a.seq < b.seq

\* C23: the health map keeps one record per provider id, last write wins: after
\* a report the record of that id holds the reported status whatever the
\* lastChecked times of the report and of the record it replaces, the router's
\* test of that provider reads the reported status, and the records of the
\* other ids are unchanged.
C23_LastWriteWins ==
    [][\A id \in RegistryIdInputs \ {UnregisteredId}, st \in HealthStatuses, at \in CheckTimes :
          updateHealth(id, st, at) =>
              /\ health'[id] = st
              /\ \A o \in ServiceIds \ {id} : health'[o] = health[o]
              /\ IsSelectable(services', health', id)
                    <=> (id \in DOMAIN services /\ services[id].config.enabled /\ st = "healthy")]_vars

\* C23 witness: two providers have reported, one with an earlier lastChecked
\* than the other, and the router reads both records.
C23_Witness ==
    /\ health["quickchart"] = "healthy" /\ lastChecked["quickchart"] = 1
    /\ health["chartjs-server"] = "down" /\ lastChecked["chartjs-server"] = 2
    /\ IsSelectable(services, health, "quickchart")
    /\ "chartjs-server" \in DOMAIN services
    /\ ~IsSelectable(services, health, "chartjs-server")

\* C24: every id in a route's preferred list is a registered provider whose
\* type is the route's service type, in the tables as shipped and after every
\* sequence of configuration updates.
C24_PreferredWellTyped ==
    \A r \in DOMAIN routing :
        \A i \in DOMAIN routing[r].preferredServices :
            LET id == routing[r].preferredServices[i]
            IN /\ id \in DOMAIN services
               /\ services[id].type = routing[r].serviceType

\* C24 witness: a preferred provider that shipped enabled has been disabled and
\* another provider has been given an api key.
C24_Witness ==
    /\ routing = TASK_ROUTING
    /\ \E id \in ServiceIds : InitialServices[id].config.enabled /\ ~services[id].config.enabled
    /\ \E id \in ServiceIds : services[id].config.apiKey = "key"

\* planVisuals has returned its plans for the slides of the state
Planned == pc = "dispatching" /\ planCalls > 0
\* the kind the planner gave the slide at position index: the visualType of the
\* plan carrying that index, none when no plan carries it
KindAt(index) ==
    LET hits == {i \in DOMAIN visualPlans : visualPlans[i].slideIndex = index}
    IN IF hits = {} THEN "none" ELSE visualPlans[CHOOSE i \in hits : TRUE].visualType
\* the signals of a section
FigureHint(slide) == slide.layout = "figure" \/ slide.figure # "none"
ProcessSignal(slide) == slide.layout = "diagram" \/ slide.title = "method"
NumericSignal(slide) == slide.layout = "chart" \/ slide.content \in {"percent", "both"}
MathSignal(slide) == slide.content \in {"math", "both"}
PeriodicRule(index) == index > 0 /\ index % IllustrationPeriod = 0

\* C25: every section of an input the planner returns for gets exactly one kind
\* by ordered first match: a figure hint gives illustration whatever other
\* signals are present, otherwise a process signal gives diagram, otherwise a
\* numeric signal gives chart, otherwise a mathematical signal gives equation,
\* otherwise the periodic rule gives illustration, otherwise none; and the
\* sections of kind none are exactly those without a plan.
C25_OrderedFirstMatch ==
    Planned =>
        /\ \A i \in DOMAIN visualPlans : visualPlans[i].visualType # "none"
        /\ \A n \in DOMAIN slides :
             LET slide == slides[n]
                 kind == KindAt(n - 1)
             IN /\ Cardinality({i \in DOMAIN visualPlans : visualPlans[i].slideIndex = n - 1}) <= 1
                /\ FigureHint(slide) => kind = "illustration"
                /\ (~FigureHint(slide) /\ ProcessSignal(slide)) => kind = "diagram"
                /\ (~FigureHint(slide) /\ ~ProcessSignal(slide) /\ NumericSignal(slide))
                      => kind = "chart"
                /\ (~FigureHint(slide) /\ ~ProcessSignal(slide) /\ ~NumericSignal(slide)
                      /\ MathSignal(slide)) => kind = "equation"
                /\ (~FigureHint(slide) /\ ~ProcessSignal(slide) /\ ~NumericSignal(slide)
                      /\ ~MathSignal(slide)) =>
                        kind = IF PeriodicRule(n - 1) THEN "illustration" ELSE "none"

\* C25 witness: the last of six slides carries a figure hint together with
\* process, numeric and mathematical signals and was planned as an illustration,
\* while a leading slide without any signal got no plan.
C25_Witness ==
    /\ Planned
    /\ Len(slides) = 6
    /\ FigureHint(slides[6]) /\ ProcessSignal(slides[6])
    /\ NumericSignal(slides[6]) /\ MathSignal(slides[6])
    /\ KindAt(5) = "illustration"
    /\ slides[1] = PlainSlide /\ KindAt(0) = "none"

\* C26: every plan carries the position of its originating slide: the indexes
\* lie in 0..Len(slides)-1 and are strictly increasing (so distinct), the plan's
\* kind is one the slide at that position has a signal for, and planning the
\* same slides again gives the same plans.
C26_IndexIsPosition ==
    Planned =>
        /\ \A i \in DOMAIN visualPlans :
             LET plan == visualPlans[i]
             IN /\ plan.slideIndex \in 0..(Len(slides) - 1)
                /\ LET origin == slides[plan.slideIndex + 1]
                   IN /\ plan.visualType = "illustration"
                            => (FigureHint(origin) \/ PeriodicRule(plan.slideIndex))
                      /\ plan.visualType = "diagram" => ProcessSignal(origin)
                      /\ plan.visualType = "chart" => NumericSignal(origin)
                      /\ plan.visualType = "equation" => MathSignal(origin)
        /\ \A i, j \in DOMAIN visualPlans :
             i < j => visualPlans[i].slideIndex < visualPlans[j].slideIndex
        /\ planVisuals(slides, metadata) = visualPlans

\* C26 witness: of six slides the first has no plan, so the plans' indexes are
\* not their positions in the plan list, and the last slide has a plan.
C26_Witness ==
    /\ Planned
    /\ Len(slides) = 6
    /\ slides[1] = PlainSlide /\ slides[2] = ChartSlide
    /\ Len(visualPlans) >= 2
    /\ visualPlans[1].slideIndex = 1
    /\ visualPlans[Len(visualPlans)].slideIndex = 5
    /\ Len(visualPlans) < 5

\* C27: a run of orchestratePresentation never changes the registry or the
\* health records: no step of it, from the call to its terminal state, changes
\* a provider's record (enabled flag, configuration, priority) or a health status.
C27_RunLeavesRegistryAlone ==
    [][/\ services' = services
       /\ health' = health
       /\ lastChecked' = lastChecked]_vars

\* C27 witness: a run has returned after a fan-out in which a provider call
\* failed, with the registry and the health map as they were before the call.
C27_Witness ==
    /\ ReturnedAfterFanOut
    /\ raised # {}
    /\ DOMAIN visuals # {}
    /\ services = InitialServices
    /\ \A id \in ServiceIds : health[id] = NoRecord

\* the states of the pipeline's state machine, in its order: slide generation
\* is the second call of the critical path, dispatch and fan-out are the
\* artifact stage
StageRank(p) ==
    CASE p = "idle" -> 0
      [] p \in {"analyzing", "generatingSlides"} -> 1
      [] p = "planning" -> 2
      [] p \in {"dispatching", "fanout"} -> 3
      [] p = "aggregating" -> 4
      [] p \in {"complete", "failed"} -> 5

Terminal == pc \in {"complete", "failed"}

\* C28: when every provider call returns or fails, a started run reaches
\* Complete or Failed, stays in that one terminal state for ever, and before it
\* visits the states only in the order Idle, Analyzing, Planning,
\* GeneratingArtifacts, Aggregating (never going back to an earlier one).
C28_RunTerminates ==
    /\ (pc # "idle") ~> Terminal
    /\ [][Terminal => pc' = pc]_vars
    /\ [][StageRank(pc') >= StageRank(pc)]_vars

\* C28 witness: a run is Complete after going through the fan-out with a failed
\* unit and a successful one.
C28_Witness ==
    /\ pc = "complete"
    /\ Len(visualPlans) >= 2
    /\ errorLog # {}
    /\ ArtifactKeys # {}

\* the call was made with generateVisuals false or without a visual service
NoVisualsWanted == pc # "idle" /\ (~generateVisuals \/ visualService = "none")

\* C29: a call made with generateVisuals false or with no visual service never
\* enters planning or the fan-out: planVisuals is not called, no unit exists,
\* the three artifact maps stay empty, and the step that receives the slides
\* stores them in the result and completes the run.
C29_EarlyReturn ==
    /\ [](NoVisualsWanted =>
            /\ pc \in {"analyzing", "generatingSlides", "complete", "failed"}
            /\ planCalls = 0
            /\ visualPlans = <<>>
            /\ unit = <<>>
            /\ visuals = EmptyMap /\ charts = EmptyMap /\ diagrams = EmptyMap)
    /\ [][(NoVisualsWanted /\ pc = "generatingSlides") =>
            \A ss \in SeqsUpTo(SlideInputs, MaxSlides) :
                SlidesOk(ss) => (pc' = "complete" /\ slides' = ss)]_vars

\* C29 witness: a call with a visual service but generateVisuals false has
\* returned three slides, one of which would have been planned.
C29_Witness ==
    /\ pc = "complete"
    /\ ~generateVisuals
    /\ visualService = "nano-banana"
    /\ Len(slides) = MaxSlides
    /\ \E i \in DOMAIN slides : PlanSlide(slides[i], i - 1, metadata).visualType \in {"illustration", "chart", "diagram"}

\* the slide indexes for which planVisuals returned a plan of the given kind
PlannedAs(kind) ==
    {visualPlans[i].slideIndex : i \in {j \in DOMAIN visualPlans : visualPlans[j].visualType = kind}}

\* C30: at every moment of a run, hence in every result and whatever the order
\* in which the units finished, no slide index is a key of two of the maps
\* visuals, charts and diagrams, and a key of visuals is the index of an
\* illustration plan, a key of charts of a chart plan, a key of diagrams of a
\* diagram plan.
C30_KeysTypedByPlan ==
    /\ (DOMAIN visuals) \cap (DOMAIN charts) = {}
    /\ (DOMAIN visuals) \cap (DOMAIN diagrams) = {}
    /\ (DOMAIN charts) \cap (DOMAIN diagrams) = {}
    /\ ArtifactKeys \subseteq PlanIndexes
    /\ DOMAIN visuals \subseteq PlannedAs("illustration")
    /\ DOMAIN charts \subseteq PlannedAs("chart")
    /\ DOMAIN diagrams \subseteq PlannedAs("diagram")

\* C30 witness: a result with an image, a chart and a diagram.
C30_Witness ==
    /\ pc = "complete"
    /\ DOMAIN visuals # {}
    /\ DOMAIN charts # {}
    /\ DOMAIN diagrams # {}
====
